---- MODULE Spec2Model ----
(***************************************************************************)
(* A model of kbputils: the KBPStyleCollection (kbp.py), the KBPFile       *)
(* parser (kbp.py) and the AssConverter (converters.py).                   *)
(*                                                                         *)
(* The state machines share the module, each with its own specification:   *)
(*   SpecColl  - a KBPStyleCollection under insertions and lookups         *)
(*   SpecText  - AssConverter.kbp2asstext, one loop iteration per step     *)
(*   SpecDoc   - AssConverter.ass_document, one loop iteration per step    *)
(*   SpecParse - KBPFile.parse, one input line per step                    *)
(*   SpecAlias - alpha2key and key2alpha, one after the other              *)
(*   SpecColor - AssConverter.kbp2asscolor on one colour                   *)
(*   SpecPage  - KBPPage.from_textlines on one page block                  *)
(*   SpecPos   - AssConverter.get_pos on the lines of one page             *)
(* The variables of the machines a specification does not run stay at      *)
(* their idle values.                                                      *)
(***************************************************************************)
EXTENDS Integers, Sequences, FiniteSets, TLC

VARIABLES
    styles,     \* a KBPStyleCollection: [ord: insertion order of the keys, map: key -> KBPStyle]
    ret,        \* outcome of the last collection operation: [op, key, err, val]
    tline,      \* kbp2asstext: the KBPLine being converted
    tn,         \* kbp2asstext: number of syllables processed so far (the loop's n)
    cur,        \* kbp2asstext: the cursor
    tout,       \* kbp2asstext: the markup emitted so far (sequence of tags)
    tpc,        \* kbp2asstext: "loop" | "done"
    pages,      \* the KBPFile's pages: sequence of pages, each a sequence of KBPLines
    margins,    \* the KBPFile's margins
    pc,         \* ass_document: "events" | "styles" | "done" | "KeyError" | "TypeError"
    pi,         \* ass_document: index of the current page
    li,         \* ass_document: index of the current line in the page (1-based; num = li - 1)
    si,         \* ass_document: index into the style keys in the second loop
    events,     \* ass_document: result.events
    ostyles,    \* ass_document: result.styles
    kbpLines,   \* KBPFile.parse: the input lines
    x,          \* KBPFile.parse: 1-based index of the line the loop is at
    in_header,  \* KBPFile.parse: in_header
    divider,    \* KBPFile.parse: divider
    kf,         \* KBPFile.parse: self, the KBPFile being built
    perr,       \* KBPFile.parse: "running" | "ok" | the exception raised
    missing_sections, \* KBPFile.parse: missing, the sections the final ValueError names
    fcall,      \* a call of a static or pure method: [fn, arg]
    fmid,       \* the value handed from the first function of a round trip to the second
    fval,       \* the value the call returned
    fpc         \* "idle" | "called" | "half" | "returned"

collVars == <<styles, ret>>
textVars == <<tline, tn, cur, tout, tpc>>
docVars  == <<pages, margins, pc, pi, li, si, events, ostyles>>
parseVars == <<kbpLines, x, in_header, divider, kf, perr, missing_sections>>
fnVars   == <<fcall, fmid, fval, fpc>>
vars     == <<styles, ret, tline, tn, cur, tout, tpc, pages, margins, pc, pi, li, si, events, ostyles,
              kbpLines, x, in_header, divider, kf, perr, missing_sections, fcall, fmid, fval, fpc>>

(***************************************************************************)
(* Bounds of the model.                                                    *)
(***************************************************************************)
\* syllable and line times of the timing inputs range over 0..MaxTime
MaxTime == 3
\* most syllables of a line of the timing inputs
MaxSyl == 2
\* most lines of a document of the document inputs
MaxDocLines == 2
\* most items of the argument of update / |= / the constructor
MaxUpdate == 2

(***************************************************************************)
(* Program constants.                                                      *)
(***************************************************************************)
\* the largest style key (and the number of letters of each case)
MaxKey == 26
\* AssOptions defaults
FadeIn == 300
FadeOut == 200
\* get_pos: the per-line height added to margins.spacing, and the offset added to y
LineHeight == 19
LineOffset == 12
\* get_pos: x of a centred line, the inset of a left/right line, the canvas width
CenterX == 150
Inset == 6
PlayResX == 300
\* ass_document: centiseconds to milliseconds
MsPerCs == 10

Min(a, b) == IF a < b THEN a ELSE b
Abs(a) == IF a < 0 THEN -a ELSE a

\* the sequences over S of length 0..n
SeqsUpTo(S, n) == UNION {[1..k -> S] : k \in 0..n}

(***************************************************************************)
(* KBPStyle                                                                *)
(***************************************************************************)
\* A colour is a str (a 3-character code, after resolve_colors) or an int
\* (a palette index, the parser's default).
StrColor(c) == [isstr |-> TRUE, v |-> c]
IntColor(n) == [isstr |-> FALSE, v |-> <<n>>]

\* The fields of KBPStyle the converter and make_fixed read.
KBPStyle(name, tc, oc, twc, owc, fixed) ==
    [name |-> name, textcolor |-> tc, outlinecolor |-> oc,
     textwipecolor |-> twc, outlinewipecolor |-> owc, fixed |-> fixed]

\* make_fixed that forgets to set the fixed flag
make_fixed_noflag(style) ==
    IF style.fixed THEN style
    ELSE [style EXCEPT !.name = style.name \o "_fixed",
                       !.textwipecolor = style.textcolor,
                       !.outlinewipecolor = style.outlinecolor]

make_fixed(style) ==
    IF style.fixed THEN style
    ELSE [style EXCEPT !.name = style.name \o "_fixed",
                       !.textwipecolor = style.textcolor,
                       !.outlinewipecolor = style.outlinecolor,
                       !.fixed = TRUE]

\* what a failed lookup "returns": nothing (the exception propagates)
NoStyle == KBPStyle("", IntColor(0), IntColor(0), IntColor(0), IntColor(0), FALSE)

(***************************************************************************)
(* KBPStyleCollection                                                      *)
(***************************************************************************)
ascii_uppercase == <<"A","B","C","D","E","F","G","H","I","J","K","L","M",
                     "N","O","P","Q","R","S","T","U","V","W","X","Y","Z">>
ascii_lowercase == <<"a","b","c","d","e","f","g","h","i","j","k","l","m",
                     "n","o","p","q","r","s","t","u","v","w","x","y","z">>

Range(s) == {s[i] : i \in 1..Len(s)}
\* str.index / list.index, 0-based
IndexOf(s, e) == (CHOOSE i \in 1..Len(s) : s[i] = e) - 1

\* Python returns None for anything else; 0 stands for None (it is no valid key)
alpha2key(alpha) ==
    IF alpha \in Range(ascii_uppercase) THEN IndexOf(ascii_uppercase, alpha) + 1
    ELSE IF alpha \in Range(ascii_lowercase) THEN -IndexOf(ascii_lowercase, alpha) - 1
    ELSE 0

\* s[i] of a Python sequence: a negative i counts from the end
PyIndex(s, i) ==
    IF 0 <= i /\ i < Len(s) THEN s[i + 1]
    ELSE IF -Len(s) <= i /\ i < 0 THEN s[Len(s) + i + 1]
    ELSE "IndexError"

\* shifts the letters by one place
key2alpha_shifted(key) ==
    IF key < 0 THEN PyIndex(ascii_lowercase, -key)
    ELSE PyIndex(ascii_uppercase, key)

key2alpha(key) ==
    IF key < 0 THEN PyIndex(ascii_lowercase, -key - 1)
    ELSE PyIndex(ascii_uppercase, key - 1)

EmptyColl == [ord |-> <<>>, map |-> <<>>]
Keys(c) == DOMAIN c.map

\* the range check that also admits 0
assert_valid_item_zero(key) ==
    (0 <= key /\ key <= MaxKey) \/ (-MaxKey <= key /\ key <= -1)

\* TRUE when the key passes, FALSE when KeyError is raised
assert_valid_item(key) ==
    (1 <= key /\ key <= MaxKey) \/ (-MaxKey <= key /\ key <= -1)

\* dict.__setitem__: a new key goes last, an old key keeps its place
DictSet(c, key, value) ==
    IF key \in Keys(c)
    THEN [c EXCEPT !.map = [c.map EXCEPT ![key] = value]]
    ELSE [ord |-> Append(c.ord, key),
          map |-> [k \in Keys(c) \cup {key} |-> IF k = key THEN value ELSE c.map[k]]]

\* KBPStyleCollection.__setitem__: [coll, err]
setitem(c, key, value) ==
    IF assert_valid_item(key)
    THEN [coll |-> DictSet(c, key, value), err |-> ""]
    ELSE [coll |-> c, err |-> "KeyError"]

\* __missing__ that derives the fixed style and does not store it
missing_nocache(c, key) ==
    IF -key \in Keys(c)
    THEN [coll |-> c, err |-> "", val |-> make_fixed(c.map[-key])]
    ELSE [coll |-> c, err |-> "KeyError", val |-> NoStyle]

\* __missing__ for an int key: [coll, err, val]
missing(c, key) ==
    IF -key \in Keys(c)
    THEN LET r == setitem(c, key, make_fixed(c.map[-key]))
         IN  IF r.err = "" THEN [coll |-> r.coll, err |-> "", val |-> r.coll.map[key]]
             ELSE [coll |-> c, err |-> r.err, val |-> NoStyle]
    ELSE [coll |-> c, err |-> "KeyError", val |-> NoStyle]

\* self[key] for an int key: dict lookup, then __missing__
getitem(c, key) ==
    IF key \in Keys(c) THEN [coll |-> c, err |-> "", val |-> c.map[key]]
    ELSE missing(c, key)

\* self[letter]: a str is never a key of the dict, so __missing__ runs:
\* a letter is looked up at alpha2key(letter), anything else is a KeyError
getitem_alpha(c, alpha) ==
    IF alpha \in Range(ascii_uppercase) \cup Range(ascii_lowercase)
    THEN getitem(c, alpha2key(alpha))
    ELSE [coll |-> c, err |-> "KeyError", val |-> NoStyle]

\* validators.validated_structures(__assert_valid_item): every item of the
\* argument is checked before the dict method runs
validated_structures(items) ==
    \A i \in 1..Len(items) : assert_valid_item(items[i][1])

RECURSIVE DictUpdate(_, _)
DictUpdate(c, items) ==
    IF items = <<>> THEN c
    ELSE DictUpdate(DictSet(c, Head(items)[1], Head(items)[2]), Tail(items))

\* update(arg) and |= arg: [coll, err]
update(c, items) ==
    IF validated_structures(items)
    THEN [coll |-> DictUpdate(c, items), err |-> ""]
    ELSE [coll |-> c, err |-> "KeyError"]

(***************************************************************************)
(* SpecColl: a KBPStyleCollection under insertions and lookups             *)
(***************************************************************************)
c005 == StrColor(<<"0","0","5">>)
cFFF == StrColor(<<"F","F","F">>)
cA3C == StrColor(<<"A","3","C">>)
c12E == StrColor(<<"1","2","E">>)

\* two styles as from_textlines builds them (fixed = False), colours resolved
styleA == KBPStyle("A", c005, cFFF, cA3C, c12E, FALSE)
styleB == KBPStyle("B", cFFF, c005, c12E, cA3C, FALSE)
\* a style as from_textlines builds it by default: colours are palette indexes
styleU == KBPStyle("U", IntColor(1), IntColor(2), IntColor(3), IntColor(4), FALSE)

\* the keys tried: the outer end of both ranges, and the keys outside them
KeyInputs == {-MaxKey - 1, -MaxKey, 0, MaxKey, MaxKey + 1}
AlphaInputs == {"A", "Z", "z", "1"}
\* a style that is fixed already
styleF == KBPStyle("F", c12E, cA3C, c12E, cA3C, TRUE)
StyleInputs == {styleA, styleF}
UpdateInputs ==
    SeqsUpTo({<<MaxKey, styleA>>, <<-MaxKey, styleB>>, <<MaxKey + 1, styleA>>}, MaxUpdate)

(***************************************************************************)
(* KBPLine and AssConverter                                                *)
(***************************************************************************)
KBPSyllable(text, start, end, wipe) ==
    [syllable |-> text, start |-> start, end |-> end, wipe |-> wipe]

\* KBPLine with the header fields the converter reads
KBPLine(align, style, start, end, syllables) ==
    [align |-> align, style |-> style, start |-> start, end |-> end,
     syllables |-> syllables]

\* isempty that only tests for no syllables
isempty_nosyl(line) == Len(line.syllables) = 0

isempty(line) ==
    \/ Len(line.syllables) = 0
    \/ (Len(line.syllables) = 1 /\ line.syllables[1].syllable = "")

\* KBPLine.text() with its default arguments: "".join of the syllable texts
RECURSIVE JoinText(_)
JoinText(syls) ==
    IF syls = <<>> THEN "" ELSE Head(syls).syllable \o JoinText(Tail(syls))

\* the text of the first syllable only
line_text_first(line) == IF isempty(line) THEN "" ELSE line.syllables[1].syllable

line_text(line) == IF isempty(line) THEN "" ELSE JoinText(line.syllables)

\* The pieces of an event's text, in order.  {\pos(x,y)} with its optional
\* \an prefix, {\fad(a,b)}, {\k a}, {\kf a} followed by its syllable text,
\* and plain text.
PosTag(an, px, py) == [tag |-> "pos", txt |-> an, a |-> px, b |-> py]
FadTag(fi, fo)   == [tag |-> "fad", txt |-> "", a |-> fi, b |-> fo]
KTag(d)          == [tag |-> "k", txt |-> "", a |-> d, b |-> 0]
KfTag(d, text)   == [tag |-> "kf", txt |-> text, a |-> d, b |-> 0]
Plain(text)      == [tag |-> "text", txt |-> text, a |-> 0, b |-> 0]

\* the position with half the line height as its offset
get_pos_halfheight(m, line, num) ==
    LET y == m.top + num * (m.spacing + LineHeight) + (LineHeight \div 2)
    IN  IF line.align = "C" THEN PosTag("", CenterX, y)
        ELSE IF line.align = "L" THEN PosTag("an7", m.left + Inset, y)
        ELSE PosTag("an9", PlayResX - m.right - Inset, y)

get_pos(m, line, num) ==
    LET y == m.top + num * (m.spacing + LineHeight) + LineOffset
    IN  IF line.align = "C" THEN PosTag("", CenterX, y)
        ELSE IF line.align = "L" THEN PosTag("an7", m.left + Inset, y)
        ELSE PosTag("an9", PlayResX - m.right - Inset, y)

fade == FadTag(FadeIn, FadeOut)

\* the loop body that also emits a hold of 0
SylStep_hold0(line, n, c) ==
    LET s     == line.syllables[n + 1]
        delay == s.start - c
        dur0  == s.end - s.start
        dur1  == IF delay < 0 THEN dur0 + delay ELSE dur0
        dur   == IF Len(line.syllables) > n + 1 /\ line.syllables[n + 2].start - s.end = 1
                 THEN dur1 + 1 ELSE dur1
    IN  [out |-> (IF delay >= 0 THEN <<KTag(delay)>> ELSE <<>>) \o <<KfTag(dur, s.syllable)>>,
         cur |-> s.start + dur]

\* the loop body that never emits a duration below 0
SylStep_clamped(line, n, c) ==
    LET s     == line.syllables[n + 1]
        delay == s.start - c
        dur0  == s.end - s.start
        dur1  == IF delay < 0 THEN dur0 + delay ELSE dur0
        dur2  == IF Len(line.syllables) > n + 1 /\ line.syllables[n + 2].start - s.end = 1
                 THEN dur1 + 1 ELSE dur1
        dur   == IF dur2 < 0 THEN 0 ELSE dur2
    IN  [out |-> (IF delay > 0 THEN <<KTag(delay)>> ELSE <<>>) \o <<KfTag(dur, s.syllable)>>,
         cur |-> s.start + dur]

\* the loop body without the continuity adjustment
SylStep_nocontinuity(line, n, c) ==
    LET s     == line.syllables[n + 1]
        delay == s.start - c
        dur0  == s.end - s.start
        dur   == IF delay < 0 THEN dur0 + delay ELSE dur0
    IN  [out |-> (IF delay > 0 THEN <<KTag(delay)>> ELSE <<>>) \o <<KfTag(dur, s.syllable)>>,
         cur |-> s.start + dur]

\* the loop body that leaves the cursor at the end of the syllable
SylStep_cursor_at_end(line, n, c) ==
    LET s     == line.syllables[n + 1]
        delay == s.start - c
        dur0  == s.end - s.start
        dur1  == IF delay < 0 THEN dur0 + delay ELSE dur0
        dur   == IF Len(line.syllables) > n + 1 /\ line.syllables[n + 2].start - s.end = 1
                 THEN dur1 + 1 ELSE dur1
    IN  [out |-> (IF delay > 0 THEN <<KTag(delay)>> ELSE <<>>) \o <<KfTag(dur, s.syllable)>>,
         cur |-> s.end]

\* One iteration of the loop of kbp2asstext, for the syllable at 0-based index
\* n with the cursor at c: the tags it appends and the new cursor.
SylStep(line, n, c) ==
    LET s     == line.syllables[n + 1]
        delay == s.start - c
        dur0  == s.end - s.start
        dur1  == IF delay < 0 THEN dur0 + delay ELSE dur0
        dur   == IF Len(line.syllables) > n + 1 /\ line.syllables[n + 2].start - s.end = 1
                 THEN dur1 + 1 ELSE dur1
    IN  [out |-> (IF delay > 0 THEN <<KTag(delay)>> ELSE <<>>) \o <<KfTag(dur, s.syllable)>>,
         cur |-> s.start + dur]

RECURSIVE SylLoop(_, _, _)
SylLoop(line, n, c) ==
    IF n >= Len(line.syllables) THEN <<>>
    ELSE LET r == SylStep(line, n, c)
         IN  r.out \o SylLoop(line, n + 1, r.cur)

kbp2asstext(m, line, num) ==
    <<get_pos(m, line, num), fade>> \o SylLoop(line, 0, line.start)

\* a style name that leaves the style number out
ass_style_name_nokey(index, kbpName) == [num |-> 0, name |-> kbpName]

\* f"Style{abs(index):02}_{kbpName}": the number and the name
ass_style_name(index, kbpName) == [num |-> Abs(index), name |-> kbpName]

RECURSIVE Doubled(_)
Doubled(cs) ==
    IF cs = <<>> THEN <<>> ELSE <<Head(cs), Head(cs)>> \o Doubled(Tail(cs))

\* keeps the order of the characters
Reversed_not(cs) == cs

Reversed(cs) == [i \in 1..Len(cs) |-> cs[Len(cs) + 1 - i]]

\* [err, v]: list(kbpcolor) raises TypeError on an int
kbp2asscolor(color) ==
    IF color.isstr
    THEN [err |-> "", v |-> <<"&", "H", "0", "0">> \o Doubled(Reversed(color.v))]
    ELSE [err |-> "TypeError", v |-> <<>>]

\* the values of the variables of a machine that does not run
IdleLine == [start |-> 0, syllables |-> <<>>]
IdleMargins == [left |-> 0, right |-> 0, top |-> 0, spacing |-> 0]
IdleRet == [op |-> "init", err |-> "", val |-> NoStyle]
IdleCall == [fn |-> "", arg |-> 0]
\* self after KBPFile.__init__ has set pages and images: no other attribute yet
IdleFile == [has |-> {"pages", "images"}, margins |-> <<>>, other |-> <<>>, trackinfo |-> <<>>,
             styles |-> EmptyColl, pages |-> <<>>, images |-> <<>>]

InitColl ==
    /\ styles = EmptyColl
    /\ ret = IdleRet
    /\ tline = IdleLine /\ tn = 0 /\ cur = 0 /\ tout = <<>> /\ tpc = "idle"
    /\ pages = <<>> /\ margins = IdleMargins /\ pc = "idle"
    /\ pi = 0 /\ li = 0 /\ si = 0 /\ events = <<>> /\ ostyles = <<>>
    /\ kbpLines = <<>> /\ x = 0 /\ in_header = FALSE /\ divider = FALSE
    /\ kf = IdleFile /\ perr = "idle" /\ missing_sections = <<>>
    /\ fcall = IdleCall /\ fmid = 0 /\ fval = 0 /\ fpc = "idle"

\* styles[k] = v
SetItemAt(k, v) ==
    LET r == setitem(styles, k, v)
    IN  /\ styles' = r.coll
        /\ ret' = [op |-> "setitem", err |-> r.err, val |-> NoStyle]
        /\ UNCHANGED <<textVars, docVars, parseVars, fnVars>>

SetItem == \E k \in KeyInputs, v \in StyleInputs : SetItemAt(k, v)

\* styles.update(items)
UpdateWith(items) ==
    LET r == update(styles, items)
    IN  /\ styles' = r.coll
        /\ ret' = [op |-> "update", err |-> r.err, val |-> NoStyle]
        /\ UNCHANGED <<textVars, docVars, parseVars, fnVars>>

Update == \E items \in UpdateInputs : UpdateWith(items)

\* styles |= items
InPlaceOrWith(items) ==
    LET r == update(styles, items)
    IN  /\ styles' = r.coll
        /\ ret' = [op |-> "ior", err |-> r.err, val |-> NoStyle]
        /\ UNCHANGED <<textVars, docVars, parseVars, fnVars>>

InPlaceOr == \E items \in UpdateInputs : InPlaceOrWith(items)

\* styles = KBPStyleCollection(items): on an error no new collection exists
ConstructWith(items) ==
    LET r == update(EmptyColl, items)
    IN  /\ styles' = IF r.err = "" THEN r.coll ELSE styles
        /\ ret' = [op |-> "construct", err |-> r.err, val |-> NoStyle]
        /\ UNCHANGED <<textVars, docVars, parseVars, fnVars>>

Construct == \E items \in UpdateInputs : ConstructWith(items)

\* styles[k] with an int k
GetItemAt(k) ==
    LET r == getitem(styles, k)
    IN  /\ styles' = r.coll
        /\ ret' = [op |-> "getitem", err |-> r.err, val |-> r.val]
        /\ UNCHANGED <<textVars, docVars, parseVars, fnVars>>

GetItem == \E k \in KeyInputs : GetItemAt(k)

\* styles[a] with a str a
GetItemAlphaAt(a) ==
    LET r == getitem_alpha(styles, a)
    IN  /\ styles' = r.coll
        /\ ret' = [op |-> "getalpha", err |-> r.err, val |-> r.val]
        /\ UNCHANGED <<textVars, docVars, parseVars, fnVars>>

GetItemAlpha == \E a \in AlphaInputs : GetItemAlphaAt(a)

NextColl ==
    \/ SetItem
    \/ Update
    \/ InPlaceOr
    \/ Construct
    \/ GetItem
    \/ GetItemAlpha

SpecColl == InitColl /\ [][NextColl]_vars

\* the key range of the data model: [-26,-1] and [1,26]
InKeyRange(k) == k \in (-MaxKey..-1) \cup (1..MaxKey)

HasBadKey(items) == \E i \in 1..Len(items) : ~InKeyRange(items[i][1])

Rejected == ret'.err = "KeyError" /\ styles' = styles

\* C9: every key present lies in [-26,-1] or [1,26]; an insertion (item
\* assignment, update, |=, construction) at a key outside that range fails
\* with a key error and leaves the collection unchanged, and a lookup of such
\* a key fails with a key error.
C9_KeysInRange ==
    /\ [](\A k \in Keys(styles) : InKeyRange(k))
    /\ [][/\ \A k \in KeyInputs, v \in StyleInputs :
                (SetItemAt(k, v) /\ ~InKeyRange(k)) => Rejected
          /\ \A items \in UpdateInputs :
                ((UpdateWith(items) \/ InPlaceOrWith(items) \/ ConstructWith(items))
                    /\ HasBadKey(items)) => Rejected
          /\ \A k \in KeyInputs :
                (GetItemAt(k) /\ ~InKeyRange(k)) => Rejected]_vars

\* C9 witness: an insertion at key 27 was refused on a collection that holds
\* entries, one of them at the boundary key -26
C9_Witness ==
    /\ ret.op \in {"setitem", "update"}
    /\ ret.err = "KeyError"
    /\ -MaxKey \in Keys(styles)

\* the fixed derivative of the data model: name suffixed, wipe colours set to
\* the non-wipe colours, fixed set; a fixed style is its own derivative
FixedOf(s) ==
    IF s.fixed THEN s
    ELSE KBPStyle(s.name \o "_fixed", s.textcolor, s.outlinecolor,
                  s.textcolor, s.outlinecolor, TRUE)

\* what a lookup of -k must do when k is present
LazyDerivation(k) ==
    /\ ret'.err = ""
    /\ IF -k \in Keys(styles)
       THEN /\ styles' = styles
            /\ ret'.val = styles.map[-k]
       ELSE /\ ret'.val = FixedOf(styles.map[k])
            /\ Keys(styles') = Keys(styles) \cup {-k}
            /\ styles'.map[-k] = ret'.val
            /\ \A j \in Keys(styles) : styles'.map[j] = styles.map[j]
    \* the next lookup returns the same Style and changes nothing
    /\ getitem(styles', -k) = [coll |-> styles', err |-> "", val |-> ret'.val]
    /\ getitem_alpha(styles', key2alpha(-k)) = [coll |-> styles', err |-> "", val |-> ret'.val]

\* C10: when positive key k is present, a lookup of -k (or of its lowercase
\* letter) returns make_fixed of the entry at k and adds exactly the entry -k
\* the first time, and returns that same Style and changes nothing afterwards.
C10_LazyDerivationIdempotent ==
    [][\A k \in KeyInputs :
          (k > 0 /\ k \in Keys(styles)) =>
              /\ GetItemAt(-k) => LazyDerivation(k)
              /\ GetItemAlphaAt(key2alpha(-k)) => LazyDerivation(k)]_vars

\* C10 witness: the entry at -26 is the derivative of a non-fixed entry at 26,
\* and the last lookup returned it
C10_Witness ==
    /\ ret.op = "getalpha"
    /\ MaxKey \in Keys(styles) /\ -MaxKey \in Keys(styles)
    /\ ~styles.map[MaxKey].fixed
    /\ ret.val = FixedOf(styles.map[MaxKey])
    /\ styles.map[-MaxKey] = ret.val
    /\ ret.val.name = "A_fixed"

(***************************************************************************)
(* SpecText: kbp2asstext on one line, one loop iteration per step          *)
(***************************************************************************)
Times == 0..MaxTime

\* margins as parse_margins builds them
FileMargins == [left |-> 2, right |-> 2, top |-> 7, spacing |-> 12]

TimingSyllables == {KBPSyllable("la", st, en, 0) : st \in Times, en \in Times}

\* one to MaxSyl syllables with any start and end, in any order
TimingLines ==
    {KBPLine("C", "A", st, MaxTime, syls) :
        st \in Times, syls \in SeqsUpTo(TimingSyllables, MaxSyl) \ {<<>>}}

InitText ==
    /\ tline \in TimingLines
    /\ tn = 0
    /\ cur = tline.start
    /\ tout = <<get_pos(FileMargins, tline, 0), fade>>
    /\ tpc = "loop"
    /\ styles = EmptyColl /\ ret = IdleRet
    /\ pages = <<>> /\ margins = FileMargins /\ pc = "idle"
    /\ pi = 0 /\ li = 0 /\ si = 0 /\ events = <<>> /\ ostyles = <<>>
    /\ kbpLines = <<>> /\ x = 0 /\ in_header = FALSE /\ divider = FALSE
    /\ kf = IdleFile /\ perr = "idle" /\ missing_sections = <<>>
    /\ fcall = IdleCall /\ fmid = 0 /\ fval = 0 /\ fpc = "idle"

\* one iteration of "for (n, s) in enumerate(line.syllables)"
TextSyl ==
    /\ tpc = "loop"
    /\ tn < Len(tline.syllables)
    /\ LET r == SylStep(tline, tn, cur)
       IN  /\ tout' = tout \o r.out
           /\ cur' = r.cur
    /\ tn' = tn + 1
    /\ UNCHANGED <<tline, tpc, collVars, docVars, parseVars, fnVars>>

\* return result
TextReturn ==
    /\ tpc = "loop"
    /\ tn = Len(tline.syllables)
    /\ tpc' = "done"
    /\ UNCHANGED <<tline, tn, cur, tout, collVars, docVars, parseVars, fnVars>>

NextText ==
    \/ TextSyl
    \/ TextReturn

SpecText == InitText /\ [][NextText]_vars

IsKf(t) == t.tag = "kf"
IsTiming(t) == t.tag \in {"k", "kf"}
\* the highlight tags of a text, one per syllable, in order
KfTags(text) == SelectSeq(text, IsKf)
\* the hold and highlight tags of a text, in order
TimingTags(text) == SelectSeq(text, IsTiming)

\* syllable i of the line is followed by one that starts 1 unit after its end
Continuous(line, i) ==
    /\ i < Len(line.syllables)
    /\ line.syllables[i + 1].start - line.syllables[i].end = 1

\* C2 as stated: whenever S(i+1).start - S(i).end = 1, the highlighted
\* duration emitted for S(i) is S(i).end - S(i).start + 1, wherever the
\* cursor was when S(i) was reached.
C2_ContinuityAnyCursor ==
    \A i \in 1..tn :
        Continuous(tline, i) =>
            KfTags(tout)[i].a = tline.syllables[i].end - tline.syllables[i].start + 1

\* C2 amended: whenever S(i+1).start - S(i).end = 1, the highlighted duration
\* emitted for S(i) is S(i).end - S(i).start + 1 when the cursor is at or before
\* S(i).start on reaching S(i), and that less (cursor - S(i).start) when the
\* cursor is past S(i).start.
C2_ContinuityFromCursor ==
    [][(TextSyl /\ Continuous(tline, tn + 1)) =>
          LET s == tline.syllables[tn + 1]
              d == KfTags(tout')[tn + 1].a
          IN  /\ cur <= s.start => d = s.end - s.start + 1
              /\ cur > s.start => d = s.end - s.start + 1 - (cur - s.start)]_vars

\* C2 witness: a syllable reached with the cursor at its start and followed
\* 1 unit after its end by the next one was emitted with its duration raised
\* by 1
C2_Witness ==
    /\ tn = 2
    /\ Continuous(tline, 1)
    /\ tline.start = tline.syllables[1].start
    /\ tline.syllables[1].end > tline.syllables[1].start
    /\ KfTags(tout)[1].a = tline.syllables[1].end - tline.syllables[1].start + 1

(***************************************************************************)
(* SpecDoc: ass_document, one loop iteration per step                      *)
(***************************************************************************)
\* the syllable lists of the document inputs: none, one empty, one non-empty,
\* an empty one followed by a non-empty one that overlaps nothing
NoSyls == <<>>
OneEmptySyl == <<KBPSyllable("", 0, 1, 0)>>
OneSyl == <<KBPSyllable("la", 1, 2, 0)>>
TwoSyls == <<KBPSyllable("", 0, 1, 0), KBPSyllable("di", 2, 4, 0)>>

\* lines of normal style (A, B) and of fixed style (a), empty and not
DocLines ==
    {KBPLine("C", "A", 0, 1, NoSyls), KBPLine("L", "A", 0, 2, OneEmptySyl),
     KBPLine("C", "A", 1, 3, OneSyl), KBPLine("R", "A", 0, 5, TwoSyls),
     KBPLine("C", "a", 0, 2, OneEmptySyl), KBPLine("L", "a", 2, 4, OneSyl),
     KBPLine("C", "a", 0, 6, TwoSyls), KBPLine("R", "B", 3, 5, OneSyl)}

\* The pages made of the lines ls: breaks[i] starts a new page before line i
\* (a break before the first line leaves the first page without lines).
RECURSIVE Paginate(_, _, _)
Paginate(ls, breaks, acc) ==
    IF ls = <<>> THEN acc
    ELSE Paginate(Tail(ls), Tail(breaks),
                  IF Head(breaks)
                  THEN Append(acc, <<Head(ls)>>)
                  ELSE [acc EXCEPT ![Len(acc)] = Append(acc[Len(acc)], Head(ls))])

DocPages ==
    UNION {{Paginate(ls, breaks, <<<<>>>>) : ls \in [1..n -> DocLines], breaks \in [1..n -> BOOLEAN]} :
            n \in 0..MaxDocLines}

\* the end-to-end example: one page, one centred line of style A
ExamplePages ==
    <<<<KBPLine("C", "A", 100, 500,
                <<KBPSyllable("Hi", 100, 200, 0), KBPSyllable("there", 205, 500, 0)>>)>>>>

\* a collection as from_textlines builds it: positive keys, fixed = False
CollOf(items) == DictUpdate(EmptyColl, items)

\* the last one holds two styles of the same name
DocStyleColls ==
    {CollOf(<<<<1, styleA>>>>),
     CollOf(<<<<1, styleA>>, <<2, styleB>>>>),
     CollOf(<<<<1, styleU>>>>),
     CollOf(<<<<1, styleA>>, <<2, styleA>>>>)}

InitDoc ==
    /\ styles \in DocStyleColls
    /\ pages \in DocPages \cup {ExamplePages}
    /\ margins = FileMargins
    /\ pc = "events"
    /\ pi = 1
    /\ li = 1
    /\ si = 0
    /\ events = <<>>
    /\ ostyles = <<>>
    /\ ret = IdleRet
    /\ tline = IdleLine /\ tn = 0 /\ cur = 0 /\ tout = <<>> /\ tpc = "idle"
    /\ kbpLines = <<>> /\ x = 0 /\ in_header = FALSE /\ divider = FALSE
    /\ kf = IdleFile /\ perr = "idle" /\ missing_sections = <<>>
    /\ fcall = IdleCall /\ fmid = 0 /\ fval = 0 /\ fpc = "idle"

\* ass.Dialogue(start=, end=, style=, effect=, text=)
Dialogue(start, end, style, text) ==
    [start |-> start, end |-> end, style |-> style, effect |-> "karaoke", text |-> text]

\* The body of "for num, line in enumerate(page.lines)" for a line that is not
\* empty: the two lookups styles[line.style] (the first may add the fixed
\* style to the collection) and the event appended.
DocEvent(c, m, line, num) ==
    LET r1 == getitem_alpha(c, line.style)
        r2 == getitem_alpha(r1.coll, line.style)
    IN  IF r1.err # "" THEN [coll |-> c, err |-> r1.err, ev |-> <<>>]
        ELSE [coll |-> r2.coll, err |-> "",
              ev |-> <<Dialogue(line.start * MsPerCs, line.end * MsPerCs,
                                ass_style_name(alpha2key(line.style), r1.val.name),
                                IF r2.val.fixed THEN <<Plain(line_text(line))>>
                                ELSE kbp2asstext(m, line, num))>>]

\* one iteration of the inner loop of the first pass
DocLine ==
    /\ pc = "events"
    /\ pi <= Len(pages)
    /\ li <= Len(pages[pi])
    /\ LET line == pages[pi][li]
       IN  IF isempty(line)
           THEN /\ li' = li + 1
                /\ UNCHANGED <<styles, events, pc>>
           ELSE LET r == DocEvent(styles, margins, line, li - 1)
                IN  /\ styles' = r.coll
                    /\ events' = events \o r.ev
                    /\ pc' = IF r.err = "" THEN "events" ELSE r.err
                    /\ li' = IF r.err = "" THEN li + 1 ELSE li
    /\ UNCHANGED <<pi, si, ostyles, pages, margins, ret, textVars, parseVars, fnVars>>

\* the inner loop ends: the next page
DocNextPage ==
    /\ pc = "events"
    /\ pi <= Len(pages)
    /\ li > Len(pages[pi])
    /\ pi' = pi + 1
    /\ li' = 1
    /\ UNCHANGED <<pc, si, styles, events, ostyles, pages, margins, ret, textVars, parseVars, fnVars>>

\* the outer loop ends: the second pass starts
DocStylesStart ==
    /\ pc = "events"
    /\ pi > Len(pages)
    /\ pc' = "styles"
    /\ si' = 1
    /\ UNCHANGED <<pi, li, styles, events, ostyles, pages, margins, ret, textVars, parseVars, fnVars>>

IsPositive(k) == k > 0
\* a second pass that visits the positive keys only
StyleLoopKeys_positive(c) == SelectSeq(c.ord, IsPositive)

\* the keys "for idx in styles" visits, in order
StyleLoopKeys(c) == c.ord

\* ass.Style(name=, ..._color=): [err, st]
AssStyle(idx, style) ==
    LET sc == kbp2asscolor(style.textcolor)
        pc_ == kbp2asscolor(style.textwipecolor)
        oc == kbp2asscolor(style.outlinecolor)
        bc == kbp2asscolor(style.outlinewipecolor)
    IN  IF sc.err # "" \/ pc_.err # "" \/ oc.err # "" \/ bc.err # ""
        THEN [err |-> "TypeError", st |-> <<>>]
        ELSE [err |-> "",
              st |-> <<[name |-> ass_style_name(idx, style.name),
                        secondary_color |-> sc.v, primary_color |-> pc_.v,
                        outline_color |-> oc.v, back_color |-> bc.v]>>]

\* one iteration of "for idx in styles"
DocStyle ==
    /\ pc = "styles"
    /\ si <= Len(StyleLoopKeys(styles))
    /\ LET idx == StyleLoopKeys(styles)[si]
           g == getitem(styles, idx)
           r == AssStyle(idx, g.val)
       IN  /\ styles' = g.coll
           /\ ostyles' = ostyles \o r.st
           /\ pc' = IF r.err = "" THEN "styles" ELSE r.err
           /\ si' = IF r.err = "" THEN si + 1 ELSE si
    /\ UNCHANGED <<pi, li, events, pages, margins, ret, textVars, parseVars, fnVars>>

\* return result
DocReturn ==
    /\ pc = "styles"
    /\ si > Len(StyleLoopKeys(styles))
    /\ pc' = "done"
    /\ UNCHANGED <<pi, li, si, styles, events, ostyles, pages, margins, ret, textVars, parseVars, fnVars>>

NextDoc ==
    \/ DocLine
    \/ DocNextPage
    \/ DocStylesStart
    \/ DocStyle
    \/ DocReturn

SpecDoc == InitDoc /\ [][NextDoc]_vars

\* all lines of the document, in page order, then line order within the page
RECURSIVE Flatten(_)
Flatten(ps) == IF ps = <<>> THEN <<>> ELSE Head(ps) \o Flatten(Tail(ps))

\* the data model: a Line is empty iff it has no syllable, or exactly one
\* syllable whose text is empty
IsEmptyLine(line) ==
    \/ line.syllables = <<>>
    \/ (Len(line.syllables) = 1 /\ line.syllables[1].syllable = "")

IsNonEmptyLine(line) == ~IsEmptyLine(line)
NonEmptyLines == SelectSeq(Flatten(pages), IsNonEmptyLine)

\* the text an event shows: the syllable texts and plain texts of its pieces,
\* concatenated
RECURSIVE ShownText(_)
ShownText(text) ==
    IF text = <<>> THEN ""
    ELSE (IF Head(text).tag \in {"kf", "text"} THEN Head(text).txt ELSE "")
             \o ShownText(Tail(text))

\* event ev is the event of line
EventOfLine(ev, line) ==
    /\ ev.start = 10 * line.start
    /\ ev.end = 10 * line.end
    /\ ev.style.num = Abs(alpha2key(line.style))
    /\ ShownText(ev.text) = JoinText(line.syllables)

\* C1: in the document ass_document returns, the dialogue events correspond
\* one-to-one and in order (page order, then line order) to the non-empty
\* Lines; a Line without syllables or with one empty syllable yields no event.
C1_EventsMatchNonEmptyLines ==
    pc = "done" =>
        /\ Len(events) = Len(NonEmptyLines)
        /\ \A i \in 1..Len(events) : EventOfLine(events[i], NonEmptyLines[i])

\* C1 witness: a returned document of two pages, the first with one line of
\* one empty syllable and the second with a non-empty line, and one event
C1_Witness ==
    /\ pc = "done"
    /\ Len(pages) = 2
    /\ Len(pages[1]) = 1 /\ pages[1][1].syllables = OneEmptySyl
    /\ Len(pages[2]) = 1 /\ pages[2][1].syllables = TwoSyls
    /\ Len(events) = 1

\* C3 as stated: for the example Line the event spans 1000 ms to 5000 ms and
\* its timing markup is hold 0, "Hi" for 100, hold 5, "there" for 295.
C3_ExampleWithHoldZero ==
    (pc = "done" /\ pages = ExamplePages) =>
        /\ Len(events) = 1
        /\ events[1].start = 1000 /\ events[1].end = 5000
        /\ TimingTags(events[1].text) =
               <<KTag(0), KfTag(100, "Hi"), KTag(5), KfTag(295, "there")>>

\* C3 amended: for the example Line the event spans 1000 ms to 5000 ms and
\* its timing markup is "Hi" for 100, hold 5, "there" for 295, with no hold
\* before "Hi".
C3_Example ==
    (pc = "done" /\ pages = ExamplePages) =>
        /\ Len(events) = 1
        /\ events[1].start = 1000 /\ events[1].end = 5000
        /\ TimingTags(events[1].text) =
               <<KfTag(100, "Hi"), KTag(5), KfTag(295, "there")>>

\* C3 witness: the example document was converted
C3_Witness ==
    /\ pc = "done"
    /\ pages = ExamplePages
    /\ Len(events) = 1
    /\ Len(ostyles) = 1

\* the style keys referenced by the non-empty Lines
RefKeys == {alpha2key(NonEmptyLines[i].style) : i \in 1..Len(NonEmptyLines)}

StyleNames == {ostyles[i].name : i \in 1..Len(ostyles)}

IsFad(t) == t.tag = "fad"

\* C7: the text of every dialogue event holds exactly one fade tag, carrying
\* the configured fade_in and fade_out.
C7_OneFadePerEvent ==
    \A i \in 1..Len(events) :
        SelectSeq(events[i].text, IsFad) = <<FadTag(FadeIn, FadeOut)>>

\* C8 as stated: ass_document leaves the File's StyleCollection, pages and
\* margins as they were.
C8_FileUnchanged ==
    [][styles' = styles /\ pages' = pages /\ margins' = margins]_vars

\* C8 amended: ass_document leaves pages and margins as they were and every
\* entry of the StyleCollection as it was; the only change to the File is
\* that the lookup for a non-empty Line of lowercase style letter adds, after
\* the existing keys, the fixed key -k with make_fixed of the entry at k.
C8_FileOnlyGainsFixedStyles ==
    [][/\ pages' = pages
       /\ margins' = margins
       /\ \A k \in Keys(styles) : k \in Keys(styles') /\ styles'.map[k] = styles.map[k]
       /\ \A k \in Keys(styles') \ Keys(styles) :
             /\ DocLine
             /\ IsNonEmptyLine(pages[pi][li])
             /\ pages[pi][li].style \in Range(ascii_lowercase)
             /\ k = alpha2key(pages[pi][li].style)
             /\ styles'.map[k] = FixedOf(styles.map[-k])
             /\ styles'.ord = Append(styles.ord, k)]_vars

\* C8 witness: a document was returned and the File's collection has gained
\* the fixed key -1
C8_Witness ==
    /\ pc = "done"
    /\ styles.ord = <<1, -1>>
    /\ styles.map[-1] = FixedOf(styles.map[1])
    /\ Len(events) >= 1

(***************************************************************************)
(* KBPFile: input lines and the sub-parsers                                *)
(***************************************************************************)
\* An input line (already rstripped), by what the parser can tell of it.
\*   kind  what the line is
\*   s1,s2 its string fields, ints its integer fields
Line(kind, s1, s2, ints) == [kind |-> kind, s1 |-> s1, s2 |-> s2, ints |-> ints]

DIVIDER      == Line("div", "", "", <<>>)         \* "-----------------------------"
HEADERV2     == Line("HEADERV2", "headerv2", "", <<>>)
PAGEV2       == Line("PAGEV2", "pagev2", "", <<>>)
IMAGE        == Line("IMAGE", "image", "", <<>>)
EmptyLine    == Line("empty", "", "", <<>>)       \* ""
CommentLine  == Line("comment", "", "", <<>>)     \* "'--- Template Information ---"
PaletteTitle == Line("'Palette Colours", "", "", <<>>)
StylesTitle  == Line("'Styles", "", "", <<>>)
MarginsTitle == Line("'Margins", "", "", <<>>)
OtherTitle   == Line("'Other", "", "", <<>>)
TrackTitle   == Line("'--- Track Information ---", "", "", <<>>)
StyleEnd     == Line("StyleEnd", "", "", <<>>)    \* "  StyleEnd"
\* "  005,FFF,...": the 16 palette codes
PaletteData  == Line("palette", "", "", <<>>)
\* "  2,2,7,12": comma-separated integers, indented
IntsLine(ints) == Line("ints", "", "", ints)
\* "  Style00,name,c1,c2,c3,c4" and the two lines that follow it
StyleHead(no, name) == Line("style1", name, "", <<no, 1, 2, 3, 4>>)
StyleFont    == Line("style2", "Arial", "B", <<12, 0>>)
StyleOutline == Line("style3", "L", "", <<2, 2, 2, 2, 0, 0, 0>>)
\* "Status    1": a key and a value, not indented
KeyValue(k, v) == Line("kv", k, v, <<>>)
\* "   more text": an indented continuation of a track information value
Continuation(v) == Line("cont", "", v, <<>>)
\* "C/A/100/500/0/0/0"
LineHeader(align, style, start, end) == Line("lineheader", align, style, <<start, end, 0, 0, 0>>)
\* "Hi/   100/200/0"
SyllableLine(text, start, end, wipe) == Line("syllable", text, "", <<start, end, wipe>>)
\* "FX/remove/display"
FXLine(remove, display) == Line("FX", remove, display, <<>>)
\* "100/500/file.png/0"
ImageRecord  == Line("imagerecord", "file.png", "", <<100, 500, 0>>)

\* line.startswith("'")
IsComment(l) ==
    l.kind \in {"comment", "'Palette Colours", "'Styles", "'Margins", "'Other",
                "'--- Track Information ---"}
\* line.startswith(" ")
IsIndented(l) == l.kind \in {"StyleEnd", "palette", "ints", "style1", "style2", "style3", "cont"}

\* kbpLines.index(line, start), 1-based positions; 0 when there is none (ValueError)
RECURSIVE IndexFrom(_, _, _)
IndexFrom(ls, kind, from) ==
    IF from > Len(ls) THEN 0
    ELSE IF ls[from].kind = kind THEN from
    ELSE IndexFrom(ls, kind, from + 1)

\* dict(zip(names, (int(x) for x in line.strip().split(",")))): [err, v]
ZipInts(names, l) ==
    IF l.kind # "ints" THEN [err |-> "ValueError", v |-> <<>>]
    ELSE [err |-> "",
          v |-> [k \in {names[i] : i \in 1..Min(Len(names), Len(l.ints))} |->
                    l.ints[IndexOf(names, k) + 1]]]

parse_margins(l) == ZipInts(<<"left", "right", "top", "spacing">>, l)
parse_other(l) == ZipInts(<<"bordercolor", "wipedetail">>, l)

\* KBPPalette.from_string: [err]
palette_from_string(l) ==
    IF l.kind = "palette" THEN "" ELSE "AssertionError"

\* KBPStyleCollection.from_textlines (palette=None): [err, coll]
RECURSIVE styles_from_textlines(_, _, _, _)
styles_from_textlines(ls, n, open, c) ==
    IF n > Len(ls) THEN [err |-> "", coll |-> c]
    ELSE IF ls[n].kind = "empty" /\ open
    THEN styles_from_textlines(ls, n + 1, FALSE, c)
    ELSE IF ~open /\ ls[n].kind = "style1"
    THEN IF n + 2 > Len(ls) THEN [err |-> "IndexError", coll |-> c]
         ELSE IF ls[n + 1].kind # "style2" \/ ls[n + 2].kind # "style3"
         THEN [err |-> "ValueError", coll |-> c]
         ELSE LET h == ls[n]
                  st == KBPStyle(h.s1, IntColor(h.ints[2]), IntColor(h.ints[3]),
                                 IntColor(h.ints[4]), IntColor(h.ints[5]), FALSE)
                  r == setitem(c, h.ints[1] + 1, st)
              IN  IF r.err # "" THEN [err |-> r.err, coll |-> c]
                  ELSE styles_from_textlines(ls, n + 1, TRUE, r.coll)
    ELSE styles_from_textlines(ls, n + 1, open, c)

NoTrackKey == ""
\* fields[0].lower() of line.split(maxsplit=1)
TrackKey(l) == IF l.s1 # "" /\ l.kind \in {"kv", "HEADERV2", "PAGEV2", "IMAGE"} THEN l.s1 ELSE l.kind

\* parse_trackinfo: [err, v]; prev is the last key set (NoTrackKey for None)
RECURSIVE parse_trackinfo(_, _, _)
parse_trackinfo(ls, prev, ti) ==
    IF ls = <<>> THEN [err |-> "", v |-> ti]
    ELSE LET l == Head(ls)
         IN  IF IsIndented(l)
             THEN IF prev = NoTrackKey THEN [err |-> "KeyError", v |-> ti]
                  ELSE parse_trackinfo(Tail(ls), prev,
                                       [ti EXCEPT ![prev] = ti[prev] \o "\n" \o l.s2])
             ELSE IF l.kind # "empty" /\ ~IsComment(l)
             THEN parse_trackinfo(Tail(ls), TrackKey(l),
                                  [k \in DOMAIN ti \cup {TrackKey(l)} |->
                                      IF k = TrackKey(l) THEN l.s2 ELSE ti[k]])
             ELSE parse_trackinfo(Tail(ls), prev, ti)

\* KBPPage: remove, display, lines
KBPPage(remove, display, lines) == [remove |-> remove, display |-> display, lines |-> lines]

NoHeader == LineHeader("", "", 0, 0)

\* the declared wipe id, whatever the default
resolve_wipe_keep(default_wipe, wipe) == wipe

\* if default_wipe and fields[3] == 0: fields[3] = default_wipe
resolve_wipe(default_wipe, wipe) ==
    IF default_wipe # 0 /\ wipe = 0 THEN default_wipe ELSE wipe

\* the loop of KBPPage.from_textlines at page line n: [err, page]
\* header = NoHeader stands for "header is None"
RECURSIVE page_loop(_, _, _, _, _, _, _)
page_loop(ls, n, default_wipe, lines, syllables, header, transitions) ==
    IF n > Len(ls)
    THEN [err |-> "", page |-> KBPPage(transitions[1], transitions[2], lines)]
    ELSE LET l == ls[n]
         IN  IF header = NoHeader /\ l.kind = "lineheader"
             THEN page_loop(ls, n + 1, default_wipe, lines, syllables, l, transitions)
             ELSE IF l.kind = "empty" /\ header # NoHeader
             THEN page_loop(ls, n + 1, default_wipe,
                            Append(lines, KBPLine(header.s1, header.s2, header.ints[1],
                                                  header.ints[2], syllables)),
                            <<>>, NoHeader, transitions)
             ELSE IF header = NoHeader /\ l.kind = "FX"
             THEN page_loop(ls, n + 1, default_wipe, lines, syllables, header, <<l.s1, l.s2>>)
             ELSE IF l.kind # "empty"
             THEN IF l.kind = "syllable"
                  THEN LET wipe == resolve_wipe(default_wipe, l.ints[3])
                       IN  page_loop(ls, n + 1, default_wipe, lines,
                                     Append(syllables,
                                            KBPSyllable(l.s1, l.ints[1], l.ints[2], wipe)),
                                     header, transitions)
                  ELSE IF l.kind \in {"lineheader", "FX", "imagerecord"}
                  THEN [err |-> "ValueError", page |-> KBPPage("", "", <<>>)]
                  ELSE [err |-> "IndexError", page |-> KBPPage("", "", <<>>)]
             ELSE page_loop(ls, n + 1, default_wipe, lines, syllables, header, transitions)

page_from_textlines(ls, default_wipe) ==
    page_loop(ls, 1, default_wipe, <<>>, <<>>, NoHeader, <<"", "">>)

\* KBPImage.from_string: [err]; int(fields[0]) fails on any other line
image_from_string(l) ==
    IF l.kind = "imagerecord" THEN "" ELSE "ValueError"

\* ---------------------------------------------------------------------------
\* KBPFile.parse: one step per input line, then the missing-sections check
\* ---------------------------------------------------------------------------

\* a parser that takes a track in any state
track_state_error_never(ti) == FALSE
\* self.trackinfo["status"] != '1'
track_state_error(ti) == ti["status"] # "1"

NotComment(l) == ~IsComment(l)

\* the in_header branch for the line at i: [err, kf]
header_section(self, ls, i) ==
    LET line == ls[i]
        ok(f) == [err |-> "", kf |-> f]
        fail(e) == [err |-> e, kf |-> self]
    IN  IF line.kind = "'Palette Colours"
        THEN IF i + 1 > Len(ls) THEN fail("IndexError")
             ELSE IF palette_from_string(ls[i + 1]) # ""
             THEN fail(palette_from_string(ls[i + 1]))
             ELSE ok([self EXCEPT !.has = @ \cup {"colors"}])
        ELSE IF line.kind = "'Styles"
        THEN LET e == IndexFrom(ls, "StyleEnd", i + 1)
                 r == styles_from_textlines(SelectSeq(SubSeq(ls, i + 1, e - 1), NotComment),
                                            1, FALSE, EmptyColl)
             IN  IF e = 0 THEN fail("ValueError")
                 ELSE IF r.err # "" THEN fail(r.err)
                 ELSE ok([self EXCEPT !.has = @ \cup {"styles"}, !.styles = r.coll])
        ELSE IF line.kind = "'Margins"
        THEN IF i + 1 > Len(ls) THEN fail("IndexError")
             ELSE LET r == parse_margins(ls[i + 1])
                  IN  IF r.err # "" THEN fail(r.err)
                      ELSE ok([self EXCEPT !.has = @ \cup {"margins"}, !.margins = r.v])
        ELSE IF line.kind = "'Other"
        THEN IF i + 1 > Len(ls) THEN fail("IndexError")
             ELSE LET r == parse_other(ls[i + 1])
                  IN  IF r.err # "" THEN fail(r.err)
                      ELSE ok([self EXCEPT !.has = @ \cup {"other"}, !.other = r.v])
        ELSE IF line.kind = "'--- Track Information ---"
        THEN LET e == IndexFrom(ls, "div", i + 1)
                 r == parse_trackinfo(SubSeq(ls, i + 1, e - 1), NoTrackKey, <<>>)
                 f == [self EXCEPT !.has = @ \cup {"trackinfo"}, !.trackinfo = r.v]
             IN  IF e = 0 THEN fail("ValueError")
                 ELSE IF r.err # "" THEN [err |-> r.err, kf |-> f]
                 ELSE IF "status" \notin DOMAIN r.v THEN [err |-> "KeyError", kf |-> f]
                 ELSE IF track_state_error(r.v) THEN [err |-> "NotImplementedError", kf |-> f]
                 ELSE ok(f)
        ELSE ok(self)

\* the PAGEV2 branch for the line at i (resolve_wipe=True): [err, kf]
page_section(self, ls, i) ==
    LET e == IndexFrom(ls, "div", i + 1)
        fail(er) == [err |-> er, kf |-> self]
    IN  IF e = 0 THEN fail("ValueError")
        ELSE IF "other" \notin self.has THEN fail("AttributeError")
        ELSE IF "wipedetail" \notin DOMAIN self.other THEN fail("KeyError")
        ELSE LET r == page_from_textlines(SubSeq(ls, i + 1, e - 1), self.other["wipedetail"])
             IN  IF r.err # "" THEN fail(r.err)
                 ELSE [err |-> "", kf |-> [self EXCEPT !.pages = Append(@, r.page)]]

\* the IMAGE branch for the line at i: [err, kf]
image_section(self, ls, i) ==
    IF i + 1 > Len(ls) THEN [err |-> "IndexError", kf |-> self]
    ELSE IF image_from_string(ls[i + 1]) # ""
    THEN [err |-> image_from_string(ls[i + 1]), kf |-> self]
    ELSE [err |-> "", kf |-> [self EXCEPT !.images = Append(@, ls[i + 1])]]

\* flags where only a divider line changes divider
FlagsAfter_sticky(line, ih, dv) ==
    LET ih1 == IF dv /\ line.kind = "HEADERV2" THEN TRUE ELSE ih
    IN  IF line.kind = "div" THEN [in_header |-> FALSE, divider |-> TRUE]
        ELSE [in_header |-> ih1, divider |-> dv]

\* the two flags after the line: [in_header, divider]
FlagsAfter(line, ih, dv) ==
    LET ih1 == IF dv /\ line.kind = "HEADERV2" THEN TRUE ELSE ih
    IN  IF line.kind = "div" THEN [in_header |-> FALSE, divider |-> TRUE]
        ELSE IF line.kind # "empty" /\ ~IsComment(line)
        THEN [in_header |-> ih1, divider |-> FALSE]
        ELSE [in_header |-> ih1, divider |-> dv]

\* the rest of the loop body once the branch has produced o = [err, kf]
LoopBody(o) ==
    /\ kf' = o.kf
    /\ IF o.err # ""
       THEN /\ perr' = o.err
            /\ UNCHANGED <<x, in_header, divider>>
       ELSE /\ x' = x + 1
            /\ in_header' = FlagsAfter(kbpLines[x], in_header, divider).in_header
            /\ divider' = FlagsAfter(kbpLines[x], in_header, divider).divider
            /\ UNCHANGED perr
    /\ UNCHANGED <<kbpLines, missing_sections, collVars, textVars, docVars, fnVars>>

Looping == perr = "running" /\ x <= Len(kbpLines)

ParseHeaderLine ==
    /\ Looping
    /\ in_header
    /\ LoopBody(header_section(kf, kbpLines, x))

\* a page marker opens a page wherever it stands outside the header
is_page_start_anywhere(line, ih, dv) == ~ih /\ line.kind = "PAGEV2"

\* not in_header, and divider and line == "PAGEV2"
is_page_start(line, ih, dv) == ~ih /\ dv /\ line.kind = "PAGEV2"

ParsePage ==
    /\ Looping
    /\ is_page_start(kbpLines[x], in_header, divider)
    /\ LoopBody(page_section(kf, kbpLines, x))

ParseImage ==
    /\ Looping
    /\ ~in_header /\ ~is_page_start(kbpLines[x], in_header, divider)
    /\ divider /\ kbpLines[x].kind = "IMAGE"
    /\ LoopBody(image_section(kf, kbpLines, x))

ParseOtherLine ==
    /\ Looping
    /\ ~in_header
    /\ ~is_page_start(kbpLines[x], in_header, divider)
    /\ ~(divider /\ kbpLines[x].kind = "IMAGE")
    /\ LoopBody([err |-> "", kf |-> kf])

RequiredSections == <<"colors", "styles", "margins", "other", "pages", "trackinfo">>
NotHasAttr(name) == name \notin kf.has

ParseEnd ==
    /\ perr = "running" /\ x > Len(kbpLines)
    /\ missing_sections' = SelectSeq(RequiredSections, NotHasAttr)
    /\ perr' = IF missing_sections' # <<>> THEN "ValueError" ELSE "ok"
    /\ UNCHANGED <<kbpLines, x, in_header, divider, kf, collVars, textVars, docVars, fnVars>>

\* ---------------------------------------------------------------------------
\* SpecParse: KBPFile.parse over project files and over short line sequences
\* ---------------------------------------------------------------------------

MaxFilePages == 2
MaxShort == 3

RECURSIVE Repeat(_, _)
Repeat(chunk, n) == IF n = 0 THEN <<>> ELSE chunk \o Repeat(chunk, n - 1)

Opt(b, chunk) == IF b THEN chunk ELSE <<>>

HeaderChunk  == <<DIVIDER, HEADERV2, EmptyLine, CommentLine>>
PaletteChunk == <<PaletteTitle, PaletteData, EmptyLine>>
StylesChunk  == <<StylesTitle, StyleHead(0, "A"), StyleFont, StyleOutline, EmptyLine,
                  CommentLine, StyleHead(1, "B"), StyleFont, StyleOutline, EmptyLine, StyleEnd>>
MarginsChunk == <<MarginsTitle, IntsLine(<<2, 2, 7, 12>>), EmptyLine>>
OtherStates  == {"absent", "0", "5"}
OtherChunk(o) ==
    IF o = "absent" THEN <<>>
    ELSE <<OtherTitle, IntsLine(<<0, IF o = "0" THEN 0 ELSE 5>>), EmptyLine>>
TrackStates  == {"absent", "1", "0", "nostatus", "orphan"}
TrackChunk(t) ==
    IF t = "absent" THEN <<>>
    ELSE IF t = "orphan" THEN <<TrackTitle, Continuation("b"), KeyValue("status", "0")>>
    ELSE <<TrackTitle, EmptyLine>>
         \o Opt(t # "nostatus", <<KeyValue("status", t)>>)
         \o <<KeyValue("comments", "a"), Continuation("b")>>
PageChunk    == <<PAGEV2, FXLine("FadeOut", "FadeIn"), LineHeader("C", "A", 100, 500),
                  SyllableLine("Hi ", 100, 200, 0), SyllableLine("there", 205, 500, 3),
                  EmptyLine, DIVIDER>>
ImageChunk   == <<IMAGE, ImageRecord, DIVIDER>>
\* what follows the pages: nothing; a page marker behind an image record, not
\* behind a divider; a page marker behind a divider, an empty line and a
\* comment; a page marker with no divider after it
TailKinds    == {"none", "stray", "spaced", "open"}
TailChunk(g) ==
    IF g = "stray"
    THEN <<IMAGE, ImageRecord, PAGEV2, LineHeader("L", "B", 600, 700),
           SyllableLine("la", 600, 700, 0), EmptyLine, DIVIDER>>
    ELSE IF g = "spaced"
    THEN <<EmptyLine, CommentLine, PAGEV2, LineHeader("R", "a", 600, 700),
           SyllableLine("la", 600, 700, 2), EmptyLine, DIVIDER>>
    ELSE IF g = "open"
    THEN <<PAGEV2, LineHeader("L", "B", 600, 700), SyllableLine("la", 600, 700, 0), EmptyLine>>
    ELSE <<>>

\* project files: each header section present or not, 0..MaxFilePages pages
FileInputs ==
    { Opt(h, HeaderChunk) \o Opt(p, PaletteChunk) \o Opt(s, StylesChunk)
      \o Opt(m, MarginsChunk) \o OtherChunk(o) \o TrackChunk(t) \o <<DIVIDER>>
      \o Repeat(PageChunk, n) \o Opt(i, ImageChunk) \o TailChunk(g) :
        h \in BOOLEAN, p \in BOOLEAN, s \in BOOLEAN, m \in BOOLEAN, o \in OtherStates,
        t \in TrackStates, n \in 0..MaxFilePages, i \in BOOLEAN, g \in TailKinds }

ShortAlphabet == {DIVIDER, HEADERV2, PAGEV2, IMAGE, EmptyLine, CommentLine, OtherTitle,
                  IntsLine(<<0, 5>>), IntsLine(<<0>>), TrackTitle, KeyValue("status", "0"),
                  KeyValue("status", "1"), Continuation("b")}
ShortInputs == SeqsUpTo(ShortAlphabet, MaxShort)

InitParse ==
    /\ kbpLines \in FileInputs \cup ShortInputs
    /\ x = 1 /\ in_header = FALSE /\ divider = FALSE
    /\ kf = IdleFile /\ perr = "running" /\ missing_sections = <<>>
    /\ styles = EmptyColl /\ ret = IdleRet
    /\ tline = IdleLine /\ tn = 0 /\ cur = 0 /\ tout = <<>> /\ tpc = "idle"
    /\ pages = <<>> /\ margins = IdleMargins /\ pc = "idle"
    /\ pi = 0 /\ li = 0 /\ si = 0 /\ events = <<>> /\ ostyles = <<>>
    /\ fcall = IdleCall /\ fmid = 0 /\ fval = 0 /\ fpc = "idle"

NextParse == ParseHeaderLine \/ ParsePage \/ ParseImage \/ ParseOtherLine \/ ParseEnd

SpecParse == InitParse /\ [][NextParse]_vars

\* ---------------------------------------------------------------------------
\* SpecParse: what the input holds, read off the lines alone
\* ---------------------------------------------------------------------------

\* in_header and divider when the loop arrives at line t
RECURSIVE ModeAt(_)
ModeAt(t) ==
    IF t = 1 THEN [in_header |-> FALSE, divider |-> FALSE]
    ELSE LET m == ModeAt(t - 1)
         IN  FlagsAfter(kbpLines[t - 1], m.in_header, m.divider)

SectionTitle(name) ==
    CASE name = "colors"    -> "'Palette Colours"
      [] name = "styles"    -> "'Styles"
      [] name = "margins"   -> "'Margins"
      [] name = "other"     -> "'Other"
      [] name = "trackinfo" -> "'--- Track Information ---"
      [] name = "pages"     -> "PAGEV2"

\* the input has the section: its title inside the header, or a page block
\* opened right after a divider outside the header
SectionPresent(name) ==
    \E t \in 1..Len(kbpLines) :
        /\ kbpLines[t].kind = SectionTitle(name)
        /\ IF name = "pages"
           THEN ~ModeAt(t).in_header /\ ModeAt(t).divider
           ELSE ModeAt(t).in_header

AbsentSections == {name \in Range(RequiredSections) : ~SectionPresent(name)}

\* an error other than the ones an absent section causes
OtherError ==
    \/ perr \in {"IndexError", "KeyError", "NotImplementedError", "AssertionError"}
    \/ perr = "ValueError" /\ missing_sections = <<>>

\* C4: when the pass is over, some required section is absent from the input
\* and no other error applies, parsing has failed with the missing-sections
\* ValueError and the sections it names are exactly the absent ones, 'pages'
\* and 'other' included.
C4_AbsentSectionsReported ==
    (perr # "running" /\ AbsentSections # {} /\ ~OtherError)
        => (perr = "ValueError" /\ Range(missing_sections) = AbsentSections)

\* the Track Information block opened at line t: the lines up to the divider
TrackBlock(t) == SubSeq(kbpLines, t + 1, IndexFrom(kbpLines, "div", t + 1) - 1)

IsStatusLine(l) == l.kind = "kv" /\ l.s1 = "status"
IsBlankOrComment(l) == l.kind = "empty" \/ IsComment(l)

\* the block's status is not '1': its last Status line holds another value, or
\* continuation lines extend that value
Unsynced(b) ==
    \E i \in 1..Len(b) :
        /\ IsStatusLine(b[i])
        /\ \A j \in (i + 1)..Len(b) : ~IsStatusLine(b[j])
        /\ \/ b[i].s2 # "1"
           \/ \E j \in (i + 1)..Len(b) :
                 /\ IsIndented(b[j])
                 /\ \A m \in (i + 1)..(j - 1) : IsBlankOrComment(b[m]) \/ IsIndented(b[m])

\* no continuation line comes before the block's first key
Readable(b) ==
    \A j \in 1..Len(b) : IsIndented(b[j]) => \E i \in 1..(j - 1) : ~IsBlankOrComment(b[i]) /\ ~IsIndented(b[i])

UnsyncedBlockAt(t) ==
    /\ kbpLines[t].kind = "'--- Track Information ---"
    /\ ModeAt(t).in_header
    /\ IndexFrom(kbpLines, "div", t + 1) # 0
    /\ Unsynced(TrackBlock(t))

Letters == Range(ascii_uppercase) \cup Range(ascii_lowercase)
ValidKeys == ((-MaxKey)..(-1)) \cup (1..MaxKey)
AliasLetterInputs == Letters \cup {"1", "", "AB"}
AliasKeyInputs == (-MaxKey - 1)..(MaxKey + 1)

InitAlias ==
    /\ fcall \in {[fn |-> "alpha2key", arg |-> a] : a \in AliasLetterInputs}
                 \cup {[fn |-> "key2alpha", arg |-> k] : k \in AliasKeyInputs}
    /\ fmid = 0 /\ fval = 0 /\ fpc = "called"
    /\ styles = EmptyColl /\ ret = IdleRet
    /\ tline = IdleLine /\ tn = 0 /\ cur = 0 /\ tout = <<>> /\ tpc = "idle"
    /\ pages = <<>> /\ margins = IdleMargins /\ pc = "idle"
    /\ pi = 0 /\ li = 0 /\ si = 0 /\ events = <<>> /\ ostyles = <<>>
    /\ kbpLines = <<>> /\ x = 0 /\ in_header = FALSE /\ divider = FALSE
    /\ kf = IdleFile /\ perr = "idle" /\ missing_sections = <<>>

\* alpha2key(letter), then key2alpha of what it returned; key2alpha(None)
\* is a TypeError (None < 0)
AliasFromLetter ==
    /\ fcall.fn = "alpha2key"
    /\ \/ /\ fpc = "called"
          /\ fmid' = alpha2key(fcall.arg)
          /\ fpc' = "half"
          /\ UNCHANGED fval
       \/ /\ fpc = "half"
          /\ IF fmid = 0
             THEN fval' = "TypeError" /\ fpc' = "raised"
             ELSE fval' = key2alpha(fmid) /\ fpc' = "returned"
          /\ UNCHANGED fmid
    /\ UNCHANGED <<fcall, collVars, textVars, docVars, parseVars>>

\* key2alpha(key), then alpha2key of the letter it returned
AliasFromKey ==
    /\ fcall.fn = "key2alpha"
    /\ \/ /\ fpc = "called"
          /\ fmid' = key2alpha(fcall.arg)
          /\ fpc' = IF fmid' = "IndexError" THEN "raised" ELSE "half"
          /\ UNCHANGED fval
       \/ /\ fpc = "half"
          /\ fval' = alpha2key(fmid)
          /\ fpc' = "returned"
          /\ UNCHANGED fmid
    /\ UNCHANGED <<fcall, collVars, textVars, docVars, parseVars>>

NextAlias == AliasFromLetter \/ AliasFromKey

SpecAlias == InitAlias /\ [][NextAlias]_vars

\* C11: for every letter L of A-Z and a-z, alpha2key(L) is L's place in its
\* alphabet (1..26 for A-Z, -1..-26 for a-z) and key2alpha gives L back; for
\* every key K of [-26,-1] and [1,26], key2alpha(K) is a letter and alpha2key
\* gives K back; neither round trip raises.
C11_AliasRoundTrip ==
    /\ (fcall.fn = "alpha2key" /\ fcall.arg \in Letters /\ fpc \in {"half", "returned", "raised"})
         => /\ fpc # "raised"
            /\ fcall.arg \in Range(ascii_uppercase)
                 => (fmid \in 1..MaxKey /\ ascii_uppercase[fmid] = fcall.arg)
            /\ fcall.arg \in Range(ascii_lowercase)
                 => (fmid \in (-MaxKey)..(-1) /\ ascii_lowercase[-fmid] = fcall.arg)
            /\ fpc = "returned" => fval = fcall.arg
    /\ (fcall.fn = "key2alpha" /\ fcall.arg \in ValidKeys /\ fpc \in {"half", "returned", "raised"})
         => /\ fpc # "raised"
            /\ fmid \in (IF fcall.arg > 0 THEN Range(ascii_uppercase) ELSE Range(ascii_lowercase))
            /\ fpc = "returned" => fval = fcall.arg

\* the key -26 has gone to "z" and come back
C11_Witness ==
    /\ fpc = "returned" /\ fcall.fn = "key2alpha" /\ fcall.arg = -MaxKey
    /\ fmid = "z" /\ fval = -MaxKey

\* ---------------------------------------------------------------------------
\* SpecColor: AssConverter.kbp2asscolor on colour codes and palette indexes
\* ---------------------------------------------------------------------------

HexDigits == {"0", "1", "2", "3", "4", "5", "6", "7", "8", "9", "A", "B", "C", "D", "E", "F"}
ShortDigits == {"0", "A", "F"}

\* every 3-character code, some codes of another length, the palette indexes
ColorInputs ==
    {StrColor(<<a, b, c>>) : a \in HexDigits, b \in HexDigits, c \in HexDigits}
    \cup {StrColor(cs) : cs \in SeqsUpTo(ShortDigits, 2)}
    \cup {StrColor(cs) : cs \in [1..4 -> ShortDigits]}
    \cup {IntColor(n) : n \in 0..15}

InitColor ==
    /\ fcall \in {[fn |-> "kbp2asscolor", arg |-> c] : c \in ColorInputs}
    /\ fmid = 0 /\ fval = 0 /\ fpc = "called"
    /\ styles = EmptyColl /\ ret = IdleRet
    /\ tline = IdleLine /\ tn = 0 /\ cur = 0 /\ tout = <<>> /\ tpc = "idle"
    /\ pages = <<>> /\ margins = IdleMargins /\ pc = "idle"
    /\ pi = 0 /\ li = 0 /\ si = 0 /\ events = <<>> /\ ostyles = <<>>
    /\ kbpLines = <<>> /\ x = 0 /\ in_header = FALSE /\ divider = FALSE
    /\ kf = IdleFile /\ perr = "idle" /\ missing_sections = <<>>

ColorConvert ==
    /\ fcall.fn = "kbp2asscolor" /\ fpc = "called"
    /\ fval' = kbp2asscolor(fcall.arg).v
    /\ fpc' = IF kbp2asscolor(fcall.arg).err = "" THEN "returned" ELSE "raised"
    /\ UNCHANGED <<fcall, fmid, collVars, textVars, docVars, parseVars>>

NextColor == ColorConvert

SpecColor == InitColor /\ [][NextColor]_vars

\* C12: for every 3-character colour code c1c2c3, kbp2asscolor returns the
\* 10-character code &H00 c3c3 c2c2 c1c1: the opaque alpha prefix, then each
\* character doubled with the channel order reversed.
C12_OpaqueReversedDoubled ==
    (fpc # "called" /\ fcall.arg.isstr /\ Len(fcall.arg.v) = 3)
        => /\ fpc = "returned"
           /\ fval = <<"&", "H", "0", "0",
                       fcall.arg.v[3], fcall.arg.v[3],
                       fcall.arg.v[2], fcall.arg.v[2],
                       fcall.arg.v[1], fcall.arg.v[1]>>

\* 12E has become &H00EE2211
C12_Witness ==
    /\ fpc = "returned"
    /\ fcall.arg = c12E
    /\ fval = <<"&", "H", "0", "0", "E", "E", "2", "2", "1", "1">>

\* ---------------------------------------------------------------------------
\* SpecText: the gap and overlap policy of kbp2asstext
\* ---------------------------------------------------------------------------

\* what one iteration appended to the text
Emitted == SubSeq(tout', Len(tout) + 1, Len(tout'))

\* the hold and the cursor of one iteration, as C13 states them: a hold of
\* exactly delay if and only if delay > 0, then the syllable; the cursor
\* moves to syllable.start plus the emitted duration
HoldAndCursor ==
    LET s == tline.syllables[tn + 1]
        delay == s.start - cur
    IN  /\ Len(Emitted) = (IF delay > 0 THEN 2 ELSE 1)
        /\ delay > 0 => Emitted[1] = KTag(delay)
        /\ Emitted[Len(Emitted)].tag = "kf"
        /\ Emitted[Len(Emitted)].txt = s.syllable
        /\ cur' = s.start + Emitted[Len(Emitted)].a

\* C13 as stated: the cursor starts at line.start; each iteration emits a hold
\* of exactly delay iff delay > 0; when delay < 0 the highlighted duration is
\* (syllable.end - syllable.start) + delay; the cursor becomes syllable.start
\* plus the emitted duration.
C13_OverlapDurationAlone ==
    /\ [](tn = 0 => cur = tline.start)
    /\ [][TextSyl =>
            LET s == tline.syllables[tn + 1]
                delay == s.start - cur
            IN  /\ HoldAndCursor
                /\ delay < 0 => Emitted[Len(Emitted)].a = (s.end - s.start) + delay]_vars

\* C13 amended: as above, but when delay < 0 the highlighted duration is
\* (syllable.end - syllable.start) + delay, plus 1 when the next syllable
\* starts exactly 1 unit after this one ends; it has no lower bound.
C13_OverlapDurationWithContinuity ==
    /\ [](tn = 0 => cur = tline.start)
    /\ [][TextSyl =>
            LET s == tline.syllables[tn + 1]
                delay == s.start - cur
            IN  /\ HoldAndCursor
                /\ delay < 0 =>
                     Emitted[Len(Emitted)].a =
                        (s.end - s.start) + delay
                        + (IF Continuous(tline, tn + 1) THEN 1 ELSE 0)]_vars

\* a syllable that starts before the cursor has been emitted with no hold
\* and a negative duration, and the cursor has moved back
C13_Witness ==
    /\ tn = 1
    /\ tline.syllables[1].start < tline.start
    /\ Len(TimingTags(tout)) = 1
    /\ KfTags(tout)[1].a < 0
    /\ cur = tline.syllables[1].start + KfTags(tout)[1].a

\* ---------------------------------------------------------------------------
\* SpecParse: the two flags of the top-level loop
\* ---------------------------------------------------------------------------

\* the loop has gone through the line at x and moved to the next one
LineRead == x' = x + 1

\* C14: after each input line, a divider line has set divider and cleared
\* in_header; an empty line or a comment line has left divider unchanged;
\* every other line has cleared divider; in_header has become true only on
\* HEADERV2 read while divider was set.  in_header and divider are never both
\* set when a line is read.
C14_FlagsPerLine ==
    /\ [](perr = "running" => ~(in_header /\ divider))
    /\ [][LineRead =>
            LET line == kbpLines[x]
            IN  /\ line = DIVIDER => (divider' /\ ~in_header')
                /\ (line = EmptyLine \/ IsComment(line)) => divider' = divider
                /\ (line # DIVIDER /\ line # EmptyLine /\ ~IsComment(line)) => ~divider'
                /\ (~in_header /\ in_header') => (line = HEADERV2 /\ divider)]_vars

\* the header has been entered, then a comment and an empty line were read,
\* and the loop is inside the header with divider cleared
C14_Witness ==
    /\ perr = "running" /\ x = 5
    /\ SubSeq(kbpLines, 1, 4) = <<DIVIDER, HEADERV2, EmptyLine, CommentLine>>
    /\ in_header /\ ~divider

\* ---------------------------------------------------------------------------
\* SpecParse: which lines open a page, and the pages of the File
\* ---------------------------------------------------------------------------

\* the nearest line before t that is neither empty nor a comment is a divider
AfterDivider(t) ==
    \E d \in 1..(t - 1) :
        /\ kbpLines[d] = DIVIDER
        /\ \A j \in (d + 1)..(t - 1) : kbpLines[j] = EmptyLine \/ IsComment(kbpLines[j])

OpensPage(t) == kbpLines[t] = PAGEV2 /\ AfterDivider(t)

HasLaterDivider(t) == \E d \in (t + 1)..Len(kbpLines) : kbpLines[d] = DIVIDER
NextDivider(t) == CHOOSE d \in (t + 1)..Len(kbpLines) :
                     kbpLines[d] = DIVIDER /\ \A j \in (t + 1)..(d - 1) : kbpLines[j] # DIVIDER

\* the lines after the page marker at t up to the next divider
PageContent(t) == SubSeq(kbpLines, t + 1, NextDivider(t) - 1)

\* the page markers before line n that open a page, in source order
OpenedBefore(n) == SelectSeq([i \in 1..(n - 1) |-> i], OpensPage)

\* C15: the pages of the File are the pages opened by the PAGEV2 lines whose
\* nearest preceding non-empty, non-comment line is a divider, and by no other
\* line, in source order, each built from the lines up to the next divider; a
\* page marker with no later divider yields no page (and no File).
C15_PagesAreOpenedPages ==
    perr # "idle" =>
        LET opened == OpenedBefore(x)
        IN  /\ Len(kf.pages) = Len(opened)
            /\ \A i \in 1..Len(opened) :
                  /\ HasLaterDivider(opened[i])
                  /\ kf.pages[i] = page_from_textlines(PageContent(opened[i]),
                                                       kf.other["wipedetail"]).page
            /\ \A t \in 1..Len(kbpLines) :
                  (OpensPage(t) /\ ~HasLaterDivider(t)) => (x <= t /\ perr # "ok")

\* a File with three pages, the last one opened behind a divider, an empty
\* line and a comment, has been returned
C15_Witness ==
    /\ perr = "ok"
    /\ Len(kf.pages) = 3
    /\ \E t \in 3..Len(kbpLines) : OpensPage(t) /\ kbpLines[t - 1] = CommentLine
    /\ kf.pages[3].lines[1].align = "R"

\* ---------------------------------------------------------------------------
\* SpecDoc: the events of Lines of fixed style
\* ---------------------------------------------------------------------------

\* the texts of the first n syllables of the line, one after the other
RECURSIVE SyllableTexts(_, _)
SyllableTexts(line, n) ==
    IF n = 0 THEN "" ELSE SyllableTexts(line, n - 1) \o line.syllables[n].syllable

HasFixedLetter(line) == line.style \in Range(ascii_lowercase)

\* C16: the event of every non-empty Line with a lowercase (fixed) style
\* letter has as its text the syllable texts in order and nothing else: no
\* hold, no highlight tag, whatever the syllable timings.
C16_FixedLinesPlainText ==
    \A i \in 1..Len(events) :
        HasFixedLetter(NonEmptyLines[i]) =>
            /\ events[i].text =
                   <<Plain(SyllableTexts(NonEmptyLines[i], Len(NonEmptyLines[i].syllables)))>>
            /\ TimingTags(events[i].text) = <<>>

\* a returned document whose second event is that of a fixed Line of two
\* syllables, behind the event of a Line of normal style
C16_Witness ==
    /\ pc = "done"
    /\ Len(events) = 2
    /\ ~HasFixedLetter(NonEmptyLines[1])
    /\ HasFixedLetter(NonEmptyLines[2])
    /\ NonEmptyLines[2].syllables = TwoSyls
    /\ events[2].text = <<Plain("di")>>

\* ---------------------------------------------------------------------------
\* SpecPage: KBPPage.from_textlines on the lines of one page block
\* ---------------------------------------------------------------------------

MaxPageLines == 4

PageAlphabet == {LineHeader("C", "A", 1, 2), SyllableLine("la", 1, 2, 0),
                 SyllableLine("di", 1, 2, 3), EmptyLine,
                 FXLine("a", "b"), FXLine("c", "d")}
DefaultWipes == {0, 5}

InitPage ==
    /\ fcall \in {[fn |-> "from_textlines", arg |-> [page_lines |-> ls, default_wipe |-> w]] :
                    ls \in SeqsUpTo(PageAlphabet, MaxPageLines), w \in DefaultWipes}
    /\ fmid = 0 /\ fval = 0 /\ fpc = "called"
    /\ styles = EmptyColl /\ ret = IdleRet
    /\ tline = IdleLine /\ tn = 0 /\ cur = 0 /\ tout = <<>> /\ tpc = "idle"
    /\ pages = <<>> /\ margins = IdleMargins /\ pc = "idle"
    /\ pi = 0 /\ li = 0 /\ si = 0 /\ events = <<>> /\ ostyles = <<>>
    /\ kbpLines = <<>> /\ x = 0 /\ in_header = FALSE /\ divider = FALSE
    /\ kf = IdleFile /\ perr = "idle" /\ missing_sections = <<>>

PageFromTextlines ==
    /\ fcall.fn = "from_textlines" /\ fpc = "called"
    /\ LET r == page_from_textlines(fcall.arg.page_lines, fcall.arg.default_wipe)
       IN  /\ fval' = r.page
           /\ fpc' = IF r.err = "" THEN "returned" ELSE "raised"
    /\ UNCHANGED <<fcall, fmid, collVars, textVars, docVars, parseVars>>

NextPage == PageFromTextlines

SpecPage == InitPage /\ [][NextPage]_vars

IsFXLine(l) == l.kind = "FX"
\* the transition markers of the block that stand before its first line header
EarlyMarkers(ls) ==
    {n \in 1..Len(ls) : IsFXLine(ls[n]) /\ \A j \in 1..(n - 1) : ls[j].kind # "lineheader"}
Last(S) == CHOOSE n \in S : \A k \in S : k <= n

\* C17: the (remove, display) ids of the page are those of the transition
\* marker that stands before any line header of the block (the last such
\* marker), a marker behind a line header does not change them, and with no
\* marker before the first header both are the empty string.
C17_TransitionsOnlyBeforeHeaders ==
    fpc = "returned" =>
        LET ls == fcall.arg.page_lines
        IN  IF EarlyMarkers(ls) = {}
            THEN fval.remove = "" /\ fval.display = ""
            ELSE /\ fval.remove = ls[Last(EarlyMarkers(ls))].s1
                 /\ fval.display = ls[Last(EarlyMarkers(ls))].s2

\* ---------------------------------------------------------------------------
\* SpecParse: the wipe ids of the syllables of the File
\* ---------------------------------------------------------------------------

IsSyllableRecord(l) == l.kind = "syllable"

\* the syllables of the Lines of a page, in order
RECURSIVE SyllablesOf(_)
SyllablesOf(lines) ==
    IF lines = <<>> THEN <<>> ELSE Head(lines).syllables \o SyllablesOf(Tail(lines))

\* the wipe detail the input declares in the Other section of its header
IsOtherData(t) == t > 1 /\ kbpLines[t - 1] = OtherTitle /\ ModeAt(t - 1).in_header
DeclaredDefault == kbpLines[CHOOSE t \in 1..Len(kbpLines) : IsOtherData(t)].ints[2]

\* C18: in the File a successful parse returns, each syllable stands for the
\* syllable record at its place in the page block, and its wipe id is the
\* default declared in the Other section when the record declares 0 and the
\* declared id otherwise, for a default of 0 as for any other.
C18_DefaultWipeSubstituted ==
    perr = "ok" =>
        \A i \in 1..Len(kf.pages) :
            LET recs == SelectSeq(PageContent(OpenedBefore(x)[i]), IsSyllableRecord)
                syls == SyllablesOf(kf.pages[i].lines)
            IN  /\ Len(syls) <= Len(recs)
                /\ \A j \in 1..Len(syls) :
                      /\ syls[j].syllable = recs[j].s1
                      /\ syls[j].wipe = (IF recs[j].ints[3] = 0 THEN DeclaredDefault
                                         ELSE recs[j].ints[3])

\* a File whose Other section declares the default 5: the first syllable of
\* its page, declared with wipe 0, carries 5 and the second keeps its 3
C18_Witness ==
    /\ perr = "ok"
    /\ Len(kf.pages) >= 1
    /\ DeclaredDefault = 5
    /\ SelectSeq(PageContent(OpenedBefore(x)[1]), IsSyllableRecord)
           = <<SyllableLine("Hi ", 100, 200, 0), SyllableLine("there", 205, 500, 3)>>
    /\ kf.pages[1].lines[1].syllables[1].wipe = 5
    /\ kf.pages[1].lines[1].syllables[2].wipe = 3

\* ---------------------------------------------------------------------------
\* SpecPos: get_pos for the lines of one page, in the order of enumerate
\* ---------------------------------------------------------------------------

MaxPosLines == 3

PosMargins == {[left |-> 2, right |-> r, top |-> t, spacing |-> sp] :
                  r \in {2, 5}, t \in {0, 7}, sp \in {0, 12}}
\* "X" is no alignment of the format
PosAligns == {"C", "L", "R", "X"}
PosLine(align) == KBPLine(align, "A", 0, 1, <<KBPSyllable("la", 0, 1, 0)>>)

InitPos ==
    /\ fcall \in {[fn |-> "get_pos", arg |-> [margins |-> m, aligns |-> as]] :
                    m \in PosMargins, as \in SeqsUpTo(PosAligns, MaxPosLines)}
    /\ fmid = 0 /\ fval = <<>> /\ fpc = "called"
    /\ styles = EmptyColl /\ ret = IdleRet
    /\ tline = IdleLine /\ tn = 0 /\ cur = 0 /\ tout = <<>> /\ tpc = "idle"
    /\ pages = <<>> /\ margins = IdleMargins /\ pc = "idle"
    /\ pi = 0 /\ li = 0 /\ si = 0 /\ events = <<>> /\ ostyles = <<>>
    /\ kbpLines = <<>> /\ x = 0 /\ in_header = FALSE /\ divider = FALSE
    /\ kf = IdleFile /\ perr = "idle" /\ missing_sections = <<>>

\* get_pos(line, num) for the next line of the page; num counts from 0
PosNextLine ==
    /\ fcall.fn = "get_pos" /\ fpc = "called"
    /\ Len(fval) < Len(fcall.arg.aligns)
    /\ fval' = Append(fval, get_pos(fcall.arg.margins,
                                    PosLine(fcall.arg.aligns[Len(fval) + 1]), Len(fval)))
    /\ UNCHANGED <<fcall, fmid, fpc, collVars, textVars, docVars, parseVars>>

PosPageDone ==
    /\ fcall.fn = "get_pos" /\ fpc = "called"
    /\ Len(fval) = Len(fcall.arg.aligns)
    /\ fpc' = "returned"
    /\ UNCHANGED <<fcall, fmid, fval, collVars, textVars, docVars, parseVars>>

NextPos == PosNextLine \/ PosPageDone

SpecPos == InitPos /\ [][NextPos]_vars

\* C19 as stated: there is one line height H such that the vertical coordinate
\* of the line at position i of the page is top + i * (spacing + H) + H/2
\* (H/2 exact or rounded down), for every line of the page.
C19_HalfLineHeightOffset ==
    fcall.fn = "get_pos" =>
        \E H \in 0..100 :
            \A n \in 1..Len(fval) :
                LET rest == fval[n].b - fcall.arg.margins.top
                            - (n - 1) * (fcall.arg.margins.spacing + H)
                IN  2 * rest = H \/ 2 * rest = H - 1

\* C19 amended: the vertical coordinate of the line at position i of the page
\* is top + i * (spacing + 19) + 12: a line height of 19 and an offset of 12
\* that is not half of it.
C19_LineHeightAndOffset ==
    fcall.fn = "get_pos" =>
        \A n \in 1..Len(fval) :
            fval[n].b = fcall.arg.margins.top
                        + (n - 1) * (fcall.arg.margins.spacing + 19) + 12

\* the third line of a page with top 7 and spacing 12 stands at 7 + 2 * 31 + 12
C19_Witness ==
    /\ fpc = "returned" /\ fcall.fn = "get_pos"
    /\ fcall.arg.margins.top = 7 /\ fcall.arg.margins.spacing = 12
    /\ Len(fval) = 3
    /\ fval[1].b = 19 /\ fval[3].b = 81

\* ---------------------------------------------------------------------------
\* SpecColl: what a lookup may add to the collection
\* ---------------------------------------------------------------------------

\* C20: a lookup (by int key or by letter) adds entries only at a negative key
\* -k, each the fixed derivative of the entry present at the positive key k;
\* it adds no entry at a positive key, changes no entry, and so puts no fixed
\* Style at a positive key.
C20_LookupsAddOnlyNegativeKeys ==
    [][(GetItem \/ GetItemAlpha) =>
          /\ \A k \in Keys(styles') \ Keys(styles) :
                /\ k < 0
                /\ -k \in Keys(styles)
                /\ styles'.map[k] = FixedOf(styles.map[-k])
          /\ \A k \in Keys(styles) :
                k \in Keys(styles') /\ styles'.map[k] = styles.map[k]]_vars

\* ---------------------------------------------------------------------------
\* SpecPage: the Lines of the page returned for a block
\* ---------------------------------------------------------------------------

\* the positions of the line headers of the block, in order
HeaderPositions(ls) ==
    LET IsHeaderAt(n) == ls[n].kind = "lineheader"
    IN  SelectSeq([n \in 1..Len(ls) |-> n], IsHeaderAt)

\* the syllable a record declares, under the default wipe w
DeclaredSyllable(l, w) ==
    KBPSyllable(l.s1, l.ints[1], l.ints[2],
                IF l.ints[3] = 0 /\ w # 0 THEN w ELSE l.ints[3])

\* the syllables declared strictly between positions a and b of the block
DeclaredBetween(ls, a, b, w) ==
    LET recs == SelectSeq(SubSeq(ls, a + 1, b - 1), IsSyllableRecord)
    IN  [j \in 1..Len(recs) |-> DeclaredSyllable(recs[j], w)]

\* C21: the Page returned for a block has exactly one Line per line header of
\* the block, in order, and the syllables of each Line are the syllable
\* records between its header and the next line header or the end of the
\* block, in order; the last line of the block is kept also when no empty
\* line follows it.
C21_EveryLineKept ==
    (fcall.fn = "from_textlines" /\ fpc = "returned") =>
        LET ls == fcall.arg.page_lines
            w  == fcall.arg.default_wipe
            hs == HeaderPositions(ls)
        IN  /\ Len(fval.lines) = Len(hs)
            /\ \A i \in 1..Len(hs) :
                  LET h    == ls[hs[i]]
                      stop == IF i < Len(hs) THEN hs[i + 1] ELSE Len(ls) + 1
                  IN  /\ fval.lines[i].align = h.s1
                      /\ fval.lines[i].style = h.s2
                      /\ fval.lines[i].start = h.ints[1]
                      /\ fval.lines[i].end = h.ints[2]
                      /\ fval.lines[i].syllables = DeclaredBetween(ls, hs[i], stop, w)

\* ---------------------------------------------------------------------------
\* SpecText: the cursor and the time the emitted tags add up to
\* ---------------------------------------------------------------------------

\* the sum of the durations of a sequence of hold and highlight tags
RECURSIVE TotalDuration(_)
TotalDuration(tags) ==
    IF tags = <<>> THEN 0 ELSE Head(tags).a + TotalDuration(Tail(tags))

\* the time the tags emitted so far for the line add up to
EmittedTime == TotalDuration(TimingTags(tout))

\* C22: after each syllable of the line is processed, the cursor equals
\* line.start plus the sum of all hold and highlight durations emitted so far
\* for the line, whatever the syllable timings (gaps and overlaps included).
C22_CursorTracksEmittedTime ==
    tpc \in {"loop", "done"} => cur = tline.start + EmittedTime

\* ---------------------------------------------------------------------------
\* SpecText: the time emitted for a line without overlaps
\* ---------------------------------------------------------------------------

\* the first syllable starts at or after line.start, every syllable starts at
\* or after the end of the one before it and ends at or after its own start
NonOverlapping(line) ==
    /\ line.syllables[1].start >= line.start
    /\ \A i \in 1..Len(line.syllables) :
          /\ line.syllables[i].end >= line.syllables[i].start
          /\ i > 1 => line.syllables[i].start >= line.syllables[i - 1].end

\* the number of syllables of the line followed 1 unit after their end
Adjustments(line) ==
    Cardinality({i \in 1..Len(line.syllables) : Continuous(line, i)})

\* C23: for a Line without overlaps, the hold and highlight durations that
\* kbp2asstext emits add up to last_syllable.end - line.start, with any
\* number of syllables and of 1-unit continuity adjustments.
C23_NoDriftWithoutOverlap ==
    (tpc = "done" /\ NonOverlapping(tline)) =>
        EmittedTime = tline.syllables[Len(tline.syllables)].end - tline.start

\* a line without overlaps that starts with a gap and has a continuity
\* adjustment: its tags add up to the end of its last syllable
C23_Witness ==
    /\ tpc = "done"
    /\ NonOverlapping(tline)
    /\ Len(tline.syllables) = MaxSyl
    /\ tline.syllables[1].start > tline.start
    /\ Adjustments(tline) >= 1
    /\ TimingTags(tout)[1].tag = "k"
    /\ EmittedTime = tline.syllables[MaxSyl].end - tline.start
    /\ EmittedTime > 0

\* ---------------------------------------------------------------------------
\* SpecDoc: the style each dialogue event refers to
\* ---------------------------------------------------------------------------

\* the entries of the style list that carry the name
StylesNamed(name) == {j \in 1..Len(ostyles) : ostyles[j].name = name}

\* C24: in every document ass_document returns, the style name each dialogue
\* event refers to is the name of exactly one entry of the style list, for
\* Lines of normal style and of fixed style alike.
C24_NoDanglingStyleReference ==
    pc = "done" =>
        \A i \in 1..Len(events) : Cardinality(StylesNamed(events[i].style)) = 1

\* a document over two styles of the same name, with an event of the fixed
\* style of the first and an event of the second: each refers to one entry
C24_Witness ==
    /\ pc = "done"
    /\ styles.ord = <<1, 2, -1>>
    /\ styles.map[1].name = styles.map[2].name
    /\ Len(events) = 2
    /\ events[1].style = ass_style_name(-1, styles.map[-1].name)
    /\ events[2].style = ass_style_name(2, styles.map[2].name)
    /\ StylesNamed(events[1].style) = {3}
    /\ StylesNamed(events[2].style) = {2}

====
